---- MODULE Spec2Model ----
(***************************************************************************)
(* The initialization orchestrator of minerdao/post                        *)
(* (src/initialization/initialization.go): one Initializer instance over   *)
(* one data directory, called from several goroutines.                     *)
(*                                                                         *)
(* Label files are byte sequences.  A label of bitsPerLabel bits is        *)
(* bitsPerLabel/8 bytes (the model uses widths that are whole bytes); a    *)
(* byte is the tuple <<commitment, position, index in label, width>>, so   *)
(* that equal byte sequences mean equal oracle outputs.                    *)
(***************************************************************************)
EXTENDS Integers, Sequences, FiniteSets, TLC

\* ------------------------------------------------------------------ bounds
\* number of NewInitializer calls after the first (process restarts)
MaxRestarts == 1
\* cap of the history counter of cancelled Initialize returns
MaxCancels == 2
\* config.DefaultComputeBatchSize: the number of labels of one oracle call
DefaultComputeBatchSize == 2

\* bytes of the difficulty threshold (32 in getDifficulty: 2^256 / numLabels)
DifficultyLen == 2
\* bits of uint64 and int64 (64 in the source)
Uint64Bits == 7

\* the values the options of NewInitializer are drawn from
BitsChoices == {8, 32}
LabelsPerUnitChoices == {1, 2}
NumUnitsChoices == {1, 2}
NumFilesChoices == {1, 2}
\* the calling goroutines
Procs == {1, 2}
FileIdx == {f - 1 : f \in NumFilesChoices}

\* Commitments: 0 is the nil slice of an Initializer built without
\* WithCommitment, 1 and 2 are 32-byte values, 3 is a 31-byte value.
NilCommitment == 0
CommitmentValues == {1, 2, 3}
CommitmentLen(c) == CASE c = 0 -> 0 [] c = 3 -> 31 [] OTHER -> 32

\* ------------------------------------------------------------ Status enum
StatusNotStarted == "NotStarted"
StatusStarted == "Started"
StatusInitializing == "Initializing"
StatusCompleted == "Completed"
StatusError == "Error"

\* ------------------------------------------------------------------ state
VARIABLES
    inst,              \* the Initializer: commitment, cfg and opts fields
    numLabelsWritten,  \* Initializer.numLabelsWritten (atomic.Uint64)
    mtx,               \* Initializer.mtx: TRUE while locked
    files,             \* data directory: label file index -> [present, data]
    meta,              \* data directory: <<>> or <<the persisted Metadata>>
    other,             \* data directory: an unrelated file is present
    pc,                \* per goroutine: position in the call it is making
    last,              \* the latest call event: [op, ret, exit] of the call
                       \* that last acquired the lock ("pending") or returned;
                       \* exit: how initFile's loop was left, if it was
    ctx,               \* the running Initialize's context is cancelled
    fileIndex,         \* Initialize: loop variable i
    currentPosition,   \* initFile: loop variable
    batchSize,         \* initFile: local batchSize
    wbuf,              \* the open LabelsWriter's buffered, unflushed bytes
    todo,              \* Reset: directory entries still to visit
    snap,              \* history: files when the running Initialize began
    oracleLog,         \* history: ranges the running Initialize dispatched
    clean,             \* history: all label bytes on disk were written under inst
    cancels,           \* history: cancelled Initialize returns since the last
                       \* Reset or configuration change
    restarts           \* history: number of NewInitializer calls

vars == <<inst, numLabelsWritten, mtx, files, meta, other, pc, last, ctx,
          fileIndex, currentPosition, batchSize, wbuf, todo, snap, oracleLog,
          clean, cancels, restarts>>

diskVars == <<files, meta, other>>
loopVars == <<fileIndex, currentPosition, batchSize, wbuf>>
histVars == <<snap, oracleLog, clean, cancels>>
ctorVars == <<inst, restarts>>

\* --------------------------------------------------------- return values
Ret(code) == [code |-> code, Param |-> "", Expected |-> 0, Found |-> 0]
RetOk == Ret("ok")
ErrAlreadyInitializing == Ret("ErrAlreadyInitializing")
ErrCannotResetWhileInitializing == Ret("ErrCannotResetWhileInitializing")
ErrStateMetadataFileMissing == Ret("ErrStateMetadataFileMissing")
ErrIO == Ret("IoError")
ErrGpuStop == Ret("GpuStopError")
ErrCancelled == Ret("ContextCanceled")
\* a panic that unwinds Initialize (the deferred Unlock runs)
Panic == Ret("panic")
ConfigMismatchError(param, expected, found) ==
    [code |-> "ConfigMismatch", Param |-> param, Expected |-> expected, Found |-> found]
StatusRet(s) == Ret(s)
NoExit == [cause |-> "none", events |-> <<>>, appended |-> FALSE]
\* appended: at least one batch was handed to the writer in this pass
Exit(c, ev) == [cause |-> c, events |-> ev, appended |-> wbuf # <<>>]
EventX(o, r, x) == [op |-> o, ret |-> r, exit |-> x]
Event(o, r) == EventX(o, r, NoExit)

\* ------------------------------------------------- construction (options)
WithCommitment(c) == [kind |-> "commitment", a |-> c, b |-> 0]
WithConfig(bits, lpu) == [kind |-> "config", a |-> bits, b |-> lpu]
WithInitOpts(nu, nf) == [kind |-> "initOpts", a |-> nu, b |-> nf]
\* a = 0: WithLogger(nil); a = 1: WithLogger(some logger)
WithLogger(a) == [kind |-> "logger", a |-> a, b |-> 0]

\* initializeOption{logger: DisabledLogger{}}: nothing else set
EmptyOptions == [commitment |-> NilCommitment, cfg |-> <<>>, initOpts |-> <<>>, err |-> FALSE]

\* one initializeOptionFunc applied to the options
ApplyOption(o, f) ==
    CASE f.kind = "commitment" ->
             IF CommitmentLen(f.a) # 32 THEN [o EXCEPT !.err = TRUE]
             ELSE [o EXCEPT !.commitment = f.a]
      [] f.kind = "config" ->
             [o EXCEPT !.cfg = <<[BitsPerLabel |-> f.a, LabelsPerUnit |-> f.b]>>]
      [] f.kind = "initOpts" ->
             [o EXCEPT !.initOpts = <<[NumUnits |-> f.a, NumFiles |-> f.b]>>]
      [] OTHER ->
             IF f.a = 0 THEN [o EXCEPT !.err = TRUE] ELSE o

\* the loop of NewInitializer: stops at the first option that fails
RECURSIVE ApplyOptions(_, _)
ApplyOptions(o, fs) ==
    IF fs = <<>> \/ o.err THEN o
    ELSE ApplyOptions(ApplyOption(o, Head(fs)), Tail(fs))

\* config.Validate: unit, label and file counts are positive and the total
\* label count is evenly divisible by the file count
Validate(cfg, opts) ==
    /\ cfg.BitsPerLabel >= 1
    /\ cfg.LabelsPerUnit >= 1
    /\ opts.NumUnits >= 1
    /\ opts.NumFiles >= 1
    /\ (opts.NumUnits * cfg.LabelsPerUnit) % opts.NumFiles = 0

\* initializeOption.verify: TRUE when it returns nil
verify(o) ==
    /\ o.cfg # <<>>
    /\ o.initOpts # <<>>
    /\ Validate(o.cfg[1], o.initOpts[1])

MkInst(c, bits, lpu, nu, nf) ==
    [commitment |-> c, BitsPerLabel |-> bits, LabelsPerUnit |-> lpu,
     NumUnits |-> nu, NumFiles |-> nf]

\* NewInitializer(opts...): [ok, inst]
NewInitializerResult(fs) ==
    LET o == ApplyOptions(EmptyOptions, fs) IN
    IF o.err \/ ~verify(o)
    THEN [ok |-> FALSE, inst |-> MkInst(0, 0, 0, 0, 0)]
    ELSE [ok |-> TRUE,
          inst |-> MkInst(o.commitment, o.cfg[1].BitsPerLabel, o.cfg[1].LabelsPerUnit,
                          o.initOpts[1].NumUnits, o.initOpts[1].NumFiles)]

\* the option lists a caller may pass: each option supplied or omitted
CommitmentOpts == {<<>>} \cup {<<WithCommitment(c)>> : c \in CommitmentValues}
ConfigOpts ==
    {<<>>} \cup {<<WithConfig(b, l)>> : b \in BitsChoices, l \in LabelsPerUnitChoices}
InitOptsOpts ==
    {<<>>} \cup {<<WithInitOpts(u, f)>> : u \in NumUnitsChoices, f \in NumFilesChoices}
LoggerOpts == {<<>>, <<WithLogger(0)>>, <<WithLogger(1)>>}
OptionLists ==
    {c \o g \o i \o l : c \in CommitmentOpts, g \in ConfigOpts,
                        i \in InitOptsOpts, l \in LoggerOpts}

\* --------------------------------------------------- labels, files, oracle
BytesPerLabel(bits) == bits \div 8
\* shared.NumLabels: label count of a byte length, by integer division
NumLabels(nbytes, bits) == (nbytes * 8) \div bits

LabelBytes(c, pos, bits) == [k \in 1..BytesPerLabel(bits) |-> <<c, pos, k, bits>>]

\* oracle.WorkOracle(...).Output for the closed range [start, end]
RECURSIVE WorkOracle(_, _, _, _)
WorkOracle(c, start, end, bits) ==
    IF start > end THEN <<>>
    ELSE LabelBytes(c, start, bits) \o WorkOracle(c, start + 1, end, bits)

NoFile == [present |-> FALSE, data |-> <<>>]
FileOf(d) == [present |-> TRUE, data |-> d]

\* DiskState.NumLabelsWritten: per expected file, length / width; summed
RECURSIVE SumLabels(_, _, _)
SumLabels(fs, n, bits) ==
    IF n = 0 THEN 0
    ELSE NumLabels(Len(fs[n - 1].data), bits) + SumLabels(fs, n - 1, bits)
DiskNumLabelsWritten(fs, i) == SumLabels(fs, i.NumFiles, i.BitsPerLabel)

\* LabelsWriter.NumLabelsWritten: by file length
WriterNumLabelsWritten(fs, idx, bits) == NumLabels(Len(fs[idx].data), bits)

\* LabelsWriter.Truncate(n): the first n labels' worth of bytes
TruncateData(d, n, bits) == SubSeq(d, 1, n * BytesPerLabel(bits))

\* the Metadata that saveMetadata writes
MetadataOf(i) ==
    [Commitment |-> i.commitment, BitsPerLabel |-> i.BitsPerLabel,
     LabelsPerUnit |-> i.LabelsPerUnit, NumUnits |-> i.NumUnits,
     NumFiles |-> i.NumFiles]

\* ------------------------------------------------ Initializer: pure parts
\* Initialize: numLabels := NumUnits * LabelsPerUnit
TargetNumLabels(i) == i.NumUnits * i.LabelsPerUnit
\* Initialize: fileNumLabels := numLabels / NumFiles
FileNumLabels(i) == TargetNumLabels(i) \div i.NumFiles
\* initFile: fileOffset, fileTargetPosition
FileOffset(idx, fnl) == idx * fnl
FileTargetPosition(idx, fnl) == FileOffset(idx, fnl) + fnl
\* initFile: "the last batch might need to be smaller"
\* ClipBatchNever: the variant that leaves the last batch unclipped
ClipBatchNever(batch, remaining) == batch
ClipBatch(batch, remaining) == IF remaining < batch THEN remaining ELSE batch
\* initFile: startPosition, endPosition of a batch
\* StartPositionNoResume: the variant that starts every batch at the file's
\* offset, ignoring the resume point
StartPositionNoResume(fileOffset, cur) == fileOffset
StartPosition(fileOffset, cur) == fileOffset + cur
\* EndPositionPastBatch: the variant whose range runs one position too far
EndPositionPastBatch(start, batch) == start + batch
EndPosition(start, batch) == start + batch - 1

\* int64(numLabels): the two's complement reading of a uint64
Int64Of(n) == IF n >= 2^(Uint64Bits - 1) THEN n - 2^Uint64Bits ELSE n
Abs(x) == IF x < 0 THEN 0 - x ELSE x
\* big.Int.Div(x, y) for x >= 0, y # 0: Euclidean division (remainder >= 0)
BigDiv(x, y) == IF y > 0 THEN x \div y ELSE 0 - (x \div (0 - y))
\* big.Int.FillBytes(buf): the absolute value, zero-extended big-endian, in
\* len(buf) bytes; panics when it does not fit
FillBytes(x, len) ==
    IF Abs(x) >= 256^len THEN [panic |-> TRUE, bytes |-> <<>>]
    ELSE [panic |-> FALSE,
          bytes |-> [k \in 1..len |-> (Abs(x) \div 256^(len - k)) % 256]]
\* getDifficulty(numLabels): 2^(8*DifficultyLen) is the value of the
\* DifficultyLen+1 bytes 0x01 0x00 .. 0x00
getDifficulty(numLabels) ==
    FillBytes(BigDiv(256^DifficultyLen, Int64Of(numLabels)), DifficultyLen)

\* mtx.TryLock() of Initialize, Reset and Status: TRUE when it acquires
\* TryLockAlways: the variant that acquires whether or not the lock is held
TryLockAlways == TRUE
\* TryLockNever: the variant that never acquires
TryLockNever == FALSE
TryLock == ~mtx

\* verifyMetadata(m): RetOk for nil, else the ConfigMismatchError
verifyMetadata(i, m) ==
    IF i.commitment # m.Commitment
    THEN ConfigMismatchError("Commitment", i.commitment, m.Commitment)
    ELSE IF i.BitsPerLabel # m.BitsPerLabel
    THEN ConfigMismatchError("BitsPerLabel", i.BitsPerLabel, m.BitsPerLabel)
    ELSE IF i.LabelsPerUnit # m.LabelsPerUnit
    THEN ConfigMismatchError("LabelsPerUnit", i.LabelsPerUnit, m.LabelsPerUnit)
    ELSE IF i.NumFiles # m.NumFiles
    THEN ConfigMismatchError("NumFiles", i.NumFiles, m.NumFiles)
    ELSE IF i.NumUnits # m.NumUnits /\ i.NumFiles > 1
    THEN ConfigMismatchError("NumUnits", i.NumUnits, m.NumUnits)
    ELSE RetOk

\* StatusOfAtLeast: the variant in which at least the target counts as
\* Completed
StatusOfAtLeast(n, target) ==
    IF n >= target THEN StatusCompleted
    ELSE IF n > 0 THEN StatusStarted
    ELSE StatusNotStarted

\* Status: the classification once the disk state was read
StatusOf(n, target) ==
    IF n = target THEN StatusCompleted
    ELSE IF n > 0 THEN StatusStarted
    ELSE StatusNotStarted


\* ------------------------------------------------------------------- Init
NoFiles == [i \in FileIdx |-> NoFile]

\* the Initializer the behaviour starts with: built from valid options
InitialInsts == {MkInst(1, 8, 2, 2, 1), MkInst(1, 8, 2, 2, 2), MkInst(1, 8, 1, 2, 1)}
\* every Initializer that NewInitializer returns for some option list
ValidInsts ==
    {NewInitializerResult(fs).inst : fs \in {g \in OptionLists : NewInitializerResult(g).ok}}

\* the state after construction, the Initializer being one of insts
InitWith(insts) ==
    /\ inst \in insts
    /\ numLabelsWritten = 0
    /\ mtx = FALSE
    /\ files = NoFiles
    /\ meta = <<>>
    /\ other = TRUE
    /\ pc = [p \in Procs |-> "idle"]
    /\ last = Event("none", Ret("none"))
    /\ ctx = FALSE
    /\ fileIndex = 0
    /\ currentPosition = 0
    /\ batchSize = 0
    /\ wbuf = <<>>
    /\ todo = {}
    /\ snap = NoFiles
    /\ oracleLog = <<>>
    /\ clean = TRUE
    /\ cancels = 0
    /\ restarts = 0

Init == InitWith(InitialInsts)
\* one Initializer for the whole behaviour, built from any valid options
InitFixed == InitWith(ValidInsts)

NoBytes(fs) == \A i \in FileIdx : fs[i].data = <<>>
InitPcs == {"init_check", "init_save", "init_file", "init_loop"}
ResetPcs == {"reset_readdir", "reset_loop"}
StatusPcs == {"status_read"}

\* ReturnXLocked: the variant whose return path leaves the lock held
ReturnXLocked(p, o, r, x) ==
    /\ pc' = [pc EXCEPT ![p] = "idle"]
    /\ last' = EventX(o, r, x)
    /\ mtx' = mtx
\* a call returns r: the deferred mtx.Unlock() runs
ReturnX(p, o, r, x) ==
    /\ pc' = [pc EXCEPT ![p] = "idle"]
    /\ last' = EventX(o, r, x)
    /\ mtx' = FALSE
Return(p, o, r) == ReturnX(p, o, r, NoExit)

\* a call proceeds to its next step
Goto(p, l) ==
    /\ pc' = [pc EXCEPT ![p] = l]
    /\ UNCHANGED <<last, mtx>>

\* Initialize returns r: its locals (and the history of the call) are gone
InitReturnX(p, r, x) ==
    /\ ReturnX(p, "Initialize", r, x)
    /\ ctx' = FALSE
    /\ fileIndex' = 0
    /\ currentPosition' = 0
    /\ batchSize' = 0
    /\ wbuf' = <<>>
    /\ snap' = NoFiles
    /\ oracleLog' = <<>>
InitReturn(p, r) == InitReturnX(p, r, NoExit)

\* ------------------------------------------------------------ NewInitializer
\* A new Initializer replaces the instance (a process start); the session
\* counter and the lock are those of the new object.
NewInitializerFrom(lists) ==
    /\ \A p \in Procs : pc[p] = "idle"
    /\ restarts < MaxRestarts
    /\ \E fs \in lists :
         LET r == NewInitializerResult(fs) IN
         /\ restarts' = restarts + 1
         /\ IF r.ok
            THEN /\ inst' = r.inst
                 /\ numLabelsWritten' = 0
                 /\ clean' = (NoBytes(files) \/ (clean /\ r.inst = inst))
                 /\ cancels' = IF r.inst = inst THEN cancels ELSE 0
                 /\ last' = Event("none", Ret("none"))
            ELSE UNCHANGED <<inst, numLabelsWritten, clean, cancels, last>>
    /\ UNCHANGED <<mtx, diskVars, pc, ctx, loopVars, todo, snap, oracleLog>>

\* a restart with any options
NewInitializer == NewInitializerFrom(OptionLists)
\* a restart with options that give the Initializer the same parameters
SameOptions == {fs \in OptionLists : NewInitializerResult(fs) = [ok |-> TRUE, inst |-> inst]}
NewInitializerSame == NewInitializerFrom(SameOptions)

\* ---------------------------------------------------------------- Initialize
\* Initialize(ctx): the TryLock; c is whether ctx is already cancelled
InitializeCall(p) ==
    /\ pc[p] = "idle"
    /\ IF ~TryLock
       THEN /\ last' = Event("Initialize", ErrAlreadyInitializing)
            /\ UNCHANGED <<pc, ctx, mtx, snap, oracleLog>>
       ELSE /\ \E c \in BOOLEAN : ctx' = c
            /\ mtx' = TRUE
            /\ pc' = [pc EXCEPT ![p] = "init_check"]
            /\ last' = Event("Initialize", Ret("pending"))
            /\ snap' = files
            /\ oracleLog' = <<>>
    /\ UNCHANGED <<ctorVars, numLabelsWritten, diskVars, loopVars, todo, clean, cancels>>

\* the cancellation of the running Initialize's context, at any time
Cancel(p) ==
    /\ pc[p] \in InitPcs
    /\ ~ctx
    /\ ctx' = TRUE
    /\ UNCHANGED <<ctorVars, numLabelsWritten, mtx, diskVars, pc, last, loopVars,
                   todo, histVars>>

\* CheckReturnSaving: the variant that saves the metadata before the check
CheckReturnSaving(p, r) == InitReturn(p, r) /\ meta' = <<MetadataOf(inst)>>
\* Initialize returns r from its consistency step: saveMetadata was not reached
CheckReturn(p, r) == InitReturn(p, r) /\ UNCHANGED meta

\* diskState.NumLabelsWritten, loadMetadata, verifyMetadata
InitCheck(p) ==
    /\ pc[p] = "init_check"
    /\ \E readOk \in BOOLEAN :
         IF ~readOk THEN CheckReturn(p, ErrIO)
         ELSE IF DiskNumLabelsWritten(files, inst) > 0 /\ meta = <<>>
         THEN CheckReturn(p, ErrStateMetadataFileMissing)
         ELSE IF DiskNumLabelsWritten(files, inst) > 0
                 /\ verifyMetadata(inst, meta[1]) # RetOk
         THEN CheckReturn(p, verifyMetadata(inst, meta[1]))
         ELSE /\ Goto(p, "init_save")
              /\ UNCHANGED <<meta, ctx, loopVars, snap, oracleLog>>
    /\ UNCHANGED <<ctorVars, numLabelsWritten, files, other, todo, clean, cancels>>

\* saveMetadata, then the file loop starts at i = 0
InitSave(p) ==
    /\ pc[p] = "init_save"
    /\ \E saveOk \in BOOLEAN :
         IF ~saveOk
         THEN InitReturn(p, ErrIO) /\ UNCHANGED meta
         ELSE /\ meta' = <<MetadataOf(inst)>>
              /\ fileIndex' = 0
              /\ Goto(p, "init_file")
              /\ UNCHANGED <<ctx, currentPosition, batchSize, wbuf, snap, oracleLog>>
    /\ UNCHANGED <<ctorVars, numLabelsWritten, files, other, todo, clean, cancels>>

\* what a LabelsWriter that is closed without Flush, or whose Flush fails, has
\* persisted of its buffer: Write gives no durability before Flush, so any
\* whole number of the buffered labels
Persisted(buf, bits) ==
    {SubSeq(buf, 1, k * BytesPerLabel(bits)) : k \in 0..NumLabels(Len(buf), bits)}

Bump(n) == IF n < MaxCancels THEN n + 1 ELSE n

\* initFile up to its loop: NewLabelsWriter, NumLabelsWritten, the
\* already-initialized and the truncate branch; and Initialize's return nil
InitFile(p) ==
    /\ pc[p] = "init_file"
    /\ LET idx == fileIndex
           fnl == FileNumLabels(inst)
           bits == inst.BitsPerLabel
       IN
       IF idx >= inst.NumFiles
       THEN /\ InitReturn(p, RetOk)
            /\ UNCHANGED <<numLabelsWritten, files>>
       ELSE IF getDifficulty(TargetNumLabels(inst)).panic
       THEN /\ InitReturn(p, Panic)
            /\ UNCHANGED <<numLabelsWritten, files>>
       ELSE LET opened == [files EXCEPT ![idx] = FileOf(files[idx].data)]
                n == WriterNumLabelsWritten(files, idx, bits)
            IN
            \E fault \in {"none", "open", "stat", "truncate"} :
              \/ /\ fault = "open"
                 /\ InitReturn(p, ErrIO)
                 /\ UNCHANGED <<numLabelsWritten, files>>
              \/ /\ fault = "stat"
                 /\ InitReturn(p, ErrIO)
                 /\ files' = opened
                 /\ UNCHANGED numLabelsWritten
              \/ /\ fault = "truncate"
                 /\ n > fnl
                 /\ InitReturn(p, ErrIO)
                 /\ files' = opened
                 /\ UNCHANGED numLabelsWritten
              \/ /\ fault = "none"
                 /\ n > 0 /\ n = fnl
                 /\ numLabelsWritten' = FileTargetPosition(idx, fnl)
                 /\ files' = opened
                 /\ fileIndex' = idx + 1
                 /\ Goto(p, "init_file")
                 /\ UNCHANGED <<ctx, currentPosition, batchSize, wbuf, snap, oracleLog>>
              \/ /\ fault = "none"
                 /\ n > 0 /\ n > fnl
                 /\ files' = [files EXCEPT ![idx] =
                                FileOf(TruncateData(files[idx].data, fnl, bits))]
                 /\ numLabelsWritten' = FileTargetPosition(idx, fnl)
                 /\ fileIndex' = idx + 1
                 /\ Goto(p, "init_file")
                 /\ UNCHANGED <<ctx, currentPosition, batchSize, wbuf, snap, oracleLog>>
              \/ /\ fault = "none"
                 /\ ~(n > 0 /\ n >= fnl)
                 /\ files' = opened
                 /\ currentPosition' = n
                 /\ batchSize' = DefaultComputeBatchSize
                 /\ wbuf' = <<>>
                 /\ Goto(p, "init_loop")
                 /\ UNCHANGED <<ctx, numLabelsWritten, fileIndex, snap, oracleLog>>
    /\ UNCHANGED <<ctorVars, meta, other, todo, clean, cancels>>

\* initFile's loop, case <-ctx.Done(): gpu.Stop, Flush, return ctx.Err()
LoopCancelled(p, idx, bits) ==
    /\ \E stopOk \in BOOLEAN, flushOk \in BOOLEAN :
         \/ /\ ~stopOk /\ flushOk
            /\ \E d \in Persisted(wbuf, bits) :
                 files' = [files EXCEPT ![idx].data = @ \o d]
            /\ InitReturnX(p, ErrGpuStop, Exit("cancel", <<"stop">>))
         \/ /\ stopOk /\ flushOk
            /\ files' = [files EXCEPT ![idx].data = @ \o wbuf]
            /\ InitReturnX(p, ErrCancelled, Exit("cancel", <<"stop", "flush">>))
         \/ /\ stopOk /\ ~flushOk
            /\ \E d \in Persisted(wbuf, bits) :
                 files' = [files EXCEPT ![idx].data = @ \o d]
            /\ InitReturnX(p, ErrIO, Exit("cancel", <<"stop", "flush">>))
    /\ cancels' = Bump(cancels)
    /\ UNCHANGED numLabelsWritten

\* initFile's loop, default: clip the batch, WorkOracle, Write, Store
LoopBatch(p, idx, fnl, bits) ==
    LET batch == ClipBatch(batchSize, fnl - currentPosition)
        startPosition == StartPosition(FileOffset(idx, fnl), currentPosition)
        endPosition == EndPosition(startPosition, batch)
    IN
    \E fault \in {"none", "oracle", "write"} :
      \/ /\ fault = "none"
         /\ wbuf' = wbuf \o WorkOracle(inst.commitment, startPosition, endPosition, bits)
         /\ numLabelsWritten' = FileOffset(idx, fnl) + currentPosition + batch
         /\ currentPosition' = currentPosition + batch
         /\ batchSize' = batch
         /\ oracleLog' = Append(oracleLog, <<startPosition, endPosition,
                                              getDifficulty(TargetNumLabels(inst)).bytes>>)
         /\ Goto(p, "init_loop")
         /\ UNCHANGED <<ctx, files, fileIndex, snap, cancels>>
      \/ /\ fault \in {"oracle", "write"}
         /\ \E d \in Persisted(wbuf, bits) :
              files' = [files EXCEPT ![idx].data = @ \o d]
         /\ InitReturnX(p, IF fault = "oracle" THEN Ret("OracleError") ELSE ErrIO,
                        Exit(fault, <<>>))
         /\ UNCHANGED <<numLabelsWritten, cancels>>

\* initFile after its loop: Flush, NumLabelsWritten, return nil
LoopDone(p, idx, bits) ==
    /\ \E fault \in {"none", "flush", "stat"} :
         \/ /\ fault = "none"
            /\ files' = [files EXCEPT ![idx].data = @ \o wbuf]
            /\ wbuf' = <<>>
            /\ fileIndex' = idx + 1
            /\ Goto(p, "init_file")
            /\ UNCHANGED <<ctx, currentPosition, batchSize, snap, oracleLog>>
         \/ /\ fault = "flush"
            /\ \E d \in Persisted(wbuf, bits) :
                 files' = [files EXCEPT ![idx].data = @ \o d]
            /\ InitReturnX(p, ErrIO, Exit("complete", <<"flush">>))
         \/ /\ fault = "stat"
            /\ files' = [files EXCEPT ![idx].data = @ \o wbuf]
            /\ InitReturnX(p, ErrIO, Exit("complete", <<"flush">>))
    /\ UNCHANGED <<numLabelsWritten, cancels>>

\* CancelledNever: the variant that never looks at the context
CancelledNever == FALSE
\* select: case <-ctx.Done() is ready
Cancelled == ctx

\* one iteration of initFile's loop, or the code after the loop
InitLoop(p) ==
    /\ pc[p] = "init_loop"
    /\ IF currentPosition < FileNumLabels(inst)
       THEN IF Cancelled
            THEN LoopCancelled(p, fileIndex, inst.BitsPerLabel)
            ELSE LoopBatch(p, fileIndex, FileNumLabels(inst), inst.BitsPerLabel)
       ELSE LoopDone(p, fileIndex, inst.BitsPerLabel)
    /\ UNCHANGED <<ctorVars, meta, other, todo, clean>>

\* --------------------------------------------------------------------- Reset
metadataFileName == "meta"
\* os.ReadDir(DataDir): the entries of the data directory
DirEntries(fs, m, o) ==
    {<<"label", i>> : i \in {j \in FileIdx : fs[j].present}}
      \cup (IF m # <<>> THEN {<<metadataFileName, 0>>} ELSE {})
      \cup (IF o THEN {<<"other", 0>>} ELSE {})
\* shared.IsInitFile(info)
IsInitFile(e) == e[1] = "label"
\* Reset: the condition under which an entry is removed
ShouldRemove(e) == IsInitFile(e) \/ e[1] = metadataFileName

\* Reset(): the TryLock
ResetCall(p) ==
    /\ pc[p] = "idle"
    /\ IF ~TryLock
       THEN /\ last' = Event("Reset", ErrCannotResetWhileInitializing)
            /\ UNCHANGED <<pc, mtx>>
       ELSE /\ mtx' = TRUE
            /\ pc' = [pc EXCEPT ![p] = "reset_readdir"]
            /\ last' = Event("Reset", Ret("pending"))
    /\ UNCHANGED <<ctorVars, numLabelsWritten, diskVars, ctx, loopVars, todo, histVars>>

\* os.ReadDir
ResetReadDir(p) ==
    /\ pc[p] = "reset_readdir"
    /\ \E readOk \in BOOLEAN :
         IF ~readOk
         THEN Return(p, "Reset", ErrIO) /\ UNCHANGED todo
         ELSE /\ todo' = DirEntries(files, meta, other)
              /\ Goto(p, "reset_loop")
    /\ UNCHANGED <<ctorVars, numLabelsWritten, diskVars, ctx, loopVars, histVars>>

\* one iteration of Reset's loop over the entries, or its return nil
ResetLoop(p) ==
    /\ pc[p] = "reset_loop"
    /\ IF todo = {}
       THEN /\ Return(p, "Reset", RetOk)
            /\ UNCHANGED <<diskVars, todo, clean, cancels>>
       ELSE \E e \in todo, infoOk \in BOOLEAN, removeOk \in BOOLEAN :
              \/ \* file.Info() fails: continue
                 /\ ~infoOk /\ removeOk
                 /\ todo' = todo \ {e}
                 /\ Goto(p, "reset_loop")
                 /\ UNCHANGED <<diskVars, clean, cancels>>
              \/ \* neither a label file nor the metadata file
                 /\ infoOk /\ removeOk /\ ~ShouldRemove(e)
                 /\ todo' = todo \ {e}
                 /\ Goto(p, "reset_loop")
                 /\ UNCHANGED <<diskVars, clean, cancels>>
              \/ \* os.Remove
                 /\ infoOk /\ removeOk /\ ShouldRemove(e)
                 /\ todo' = todo \ {e}
                 /\ files' = IF e[1] = "label" THEN [files EXCEPT ![e[2]] = NoFile]
                             ELSE files
                 /\ meta' = IF e[1] = metadataFileName THEN <<>> ELSE meta
                 /\ other' = IF e[1] = "other" THEN FALSE ELSE other
                 /\ clean' = (NoBytes(files') \/ clean)
                 /\ cancels' = 0
                 /\ Goto(p, "reset_loop")
              \/ \* os.Remove fails
                 /\ infoOk /\ ~removeOk /\ ShouldRemove(e)
                 /\ Return(p, "Reset", Ret("RemoveError"))
                 /\ todo' = {}
                 /\ UNCHANGED <<diskVars, clean, cancels>>
    /\ UNCHANGED <<ctorVars, numLabelsWritten, ctx, loopVars, snap, oracleLog>>

\* -------------------------------------------------------------------- Status
\* Status(): the TryLock
StatusCall(p) ==
    /\ pc[p] = "idle"
    /\ IF ~TryLock
       THEN /\ last' = Event("Status", StatusRet(StatusInitializing))
            /\ UNCHANGED <<pc, mtx>>
       ELSE /\ mtx' = TRUE
            /\ pc' = [pc EXCEPT ![p] = "status_read"]
            /\ last' = Event("Status", Ret("pending"))
    /\ UNCHANGED <<ctorVars, numLabelsWritten, diskVars, ctx, loopVars, todo, histVars>>

\* diskState.NumLabelsWritten and the classification
StatusRead(p) ==
    /\ pc[p] = "status_read"
    /\ \E readOk \in BOOLEAN :
         IF ~readOk THEN Return(p, "Status", StatusRet(StatusError))
         ELSE Return(p, "Status",
                     StatusRet(StatusOf(DiskNumLabelsWritten(files, inst),
                                        TargetNumLabels(inst))))
    /\ UNCHANGED <<ctorVars, numLabelsWritten, diskVars, ctx, loopVars, todo, histVars>>

\* ---------------------------------------------------------------------- Next
\* the calls on the current Initializer
Calls ==
    \/ \E p \in Procs : InitializeCall(p)
    \/ \E p \in Procs : Cancel(p)
    \/ \E p \in Procs : InitCheck(p)
    \/ \E p \in Procs : InitSave(p)
    \/ \E p \in Procs : InitFile(p)
    \/ \E p \in Procs : InitLoop(p)
    \/ \E p \in Procs : ResetCall(p)
    \/ \E p \in Procs : ResetReadDir(p)
    \/ \E p \in Procs : ResetLoop(p)
    \/ \E p \in Procs : StatusCall(p)
    \/ \E p \in Procs : StatusRead(p)

\* a process that may also be restarted with a new Initializer
Next ==
    \/ NewInitializer
    \/ Calls

Spec == Init /\ [][Next]_vars
\* commitment, configuration and options fixed: a restart builds the
\* Initializer with the same parameters
NextFixed ==
    \/ NewInitializerSame
    \/ Calls

SpecFixed == InitFixed /\ [][NextFixed]_vars

\* =================================================================== claims
IsPrefix(a, b) == Len(a) <= Len(b) /\ SubSeq(b, 1, Len(a)) = a
\* what an uninterrupted run under i leaves in file idx: the labels of the
\* positions idx*fileNumLabels .. (idx+1)*fileNumLabels-1, in order
ExpectedFile(i, idx) ==
    IF idx >= i.NumFiles THEN <<>>
    ELSE WorkOracle(i.commitment, idx * FileNumLabels(i),
                    (idx + 1) * FileNumLabels(i) - 1, i.BitsPerLabel)
\* Initialize's loop over the files has ended: it is about to return nil
AboutToSucceed == \E p \in Procs : pc[p] = "init_file" /\ fileIndex >= inst.NumFiles
Holders(S) == {p \in Procs : pc[p] \in S}

\* C1: with commitment, configuration and options fixed (every label byte on
\* disk was written under them), whatever cancellations and re-invocations
\* happened, each label file is at all times a prefix of what an
\* uninterrupted run writes (nothing written twice, nothing out of place),
\* and when Initialize is about to return success each file is exactly that.
C1_ResumeIdempotent ==
    clean =>
      /\ \A idx \in FileIdx : IsPrefix(files[idx].data, ExpectedFile(inst, idx))
      /\ AboutToSucceed =>
           \A idx \in FileIdx : files[idx].data = ExpectedFile(inst, idx)

\* C1 witness: a run succeeds that resumed a partially written file after two
\* cancelled runs.
C1_Witness ==
    /\ AboutToSucceed /\ clean /\ cancels >= 2
    /\ \E idx \in FileIdx :
         /\ idx < inst.NumFiles
         /\ snap[idx].data # <<>>
         /\ Len(snap[idx].data) < Len(ExpectedFile(inst, idx))
    /\ \A idx \in FileIdx : files[idx].data = ExpectedFile(inst, idx)

\* the parts of C2: the holders, and what a refused call did
C2_Mutex == Cardinality(Holders(InitPcs \cup ResetPcs)) <= 1
C2_Refused ==
    (/\ last' # last
     /\ last'.ret \in {ErrAlreadyInitializing, ErrCannotResetWhileInitializing})
    => /\ mtx
       /\ Holders(InitPcs \cup ResetPcs \cup StatusPcs) # {}
       /\ UNCHANGED <<diskVars, mtx, pc, numLabelsWritten, wbuf, todo>>
\* C2: at most one Initialize or Reset is past its TryLock at any time, and a
\* call refused with AlreadyInitializing or CannotResetWhileInitializing
\* found the lock held and returned in that step, leaving the directory, the
\* lock, the counter and every other call where they were.
C2_Exclusive == [](C2_Mutex) /\ [][C2_Refused]_vars

\* C2 witness: a Reset was refused while an Initialize is in its write loop.
C2_Witness ==
    /\ last = Event("Reset", ErrCannotResetWhileInitializing)
    /\ \E p \in Procs : pc[p] = "init_loop"
    /\ wbuf # <<>>

\* the fields in which the Initializer i differs from the persisted metadata m
DiffFields(i, m) ==
    (IF i.commitment # m.Commitment THEN {"Commitment"} ELSE {})
      \cup (IF i.BitsPerLabel # m.BitsPerLabel THEN {"BitsPerLabel"} ELSE {})
      \cup (IF i.LabelsPerUnit # m.LabelsPerUnit THEN {"LabelsPerUnit"} ELSE {})
      \cup (IF i.NumFiles # m.NumFiles THEN {"NumFiles"} ELSE {})
      \cup (IF i.NumUnits # m.NumUnits THEN {"NumUnits"} ELSE {})
FieldOfInst(i, f) ==
    CASE f = "Commitment" -> i.commitment
      [] f = "BitsPerLabel" -> i.BitsPerLabel
      [] f = "LabelsPerUnit" -> i.LabelsPerUnit
      [] f = "NumFiles" -> i.NumFiles
      [] OTHER -> i.NumUnits
FieldOfMeta(m, f) ==
    CASE f = "Commitment" -> m.Commitment
      [] f = "BitsPerLabel" -> m.BitsPerLabel
      [] f = "LabelsPerUnit" -> m.LabelsPerUnit
      [] f = "NumFiles" -> m.NumFiles
      [] OTHER -> m.NumUnits
\* the consistency step of Initialize ends (it returns or goes on to save)
CheckEnds(p) == pc[p] = "init_check" /\ pc'[p] # "init_check" /\ last'.ret # ErrIO

\* the step C3 is about
C3_Step ==
    \A p \in Procs :
      (/\ CheckEnds(p)
       /\ ~NoBytes(files)
       /\ meta # <<>>
       /\ Cardinality(DiffFields(inst, meta[1])) = 1)
      => LET f == CHOOSE x \in DiffFields(inst, meta[1]) : TRUE IN
         IF f = "NumUnits" /\ inst.NumFiles = 1
         THEN pc'[p] = "init_save"
         ELSE last'.ret = ConfigMismatchError(f, FieldOfInst(inst, f),
                                              FieldOfMeta(meta[1], f))
\* C3 (the claim as stated; the code violates it): when some label file is
\* non-empty and the Initializer differs from the persisted metadata in
\* exactly one field, the consistency step returns ConfigMismatch naming
\* that field, Expected the Initializer's value and Found the persisted one;
\* except that a lone NumUnits change with NumFiles = 1 raises no mismatch and
\* the run goes on.
C3_MismatchNamed == [][C3_Step]_vars

\* the case and the step C4 is about
C4_Pre ==
    /\ inst.NumFiles = 1
    /\ FileNumLabels(inst) > 0
    /\ NumLabels(Len(snap[0].data), inst.BitsPerLabel) > FileNumLabels(inst)
    /\ meta # <<>>
    /\ DiffFields(inst, meta[1]) \subseteq {"NumUnits"}
C4_Step ==
    \A p \in Procs :
      (C4_Pre /\ pc[p] \in InitPcs /\ pc'[p] = "idle")
      => /\ last'.ret \in {RetOk, ErrIO}
         /\ last'.ret = RetOk =>
              /\ Len(files'[0].data) = FileNumLabels(inst) * (inst.BitsPerLabel \div 8)
              /\ IsPrefix(files'[0].data, snap[0].data)
              /\ oracleLog = <<>>
              /\ StatusOf(DiskNumLabelsWritten(files', inst'), TargetNumLabels(inst'))
                   = StatusCompleted
\* C4 (the claim as stated; the code violates it for a target of one label,
\* where getDifficulty panics): when the single label file holds k labels, the target is m with
\* 0 < m < k, and the persisted metadata agrees with the Initializer in all
\* but NumUnits, Initialize returns only success or an I/O error; on success
\* the file is its first m labels, no range was dispatched to the oracle, and
\* Status then classifies the directory as Completed.
C4_Truncate == [][C4_Step]_vars

\* C5 (the claim as stated; the code violates it): an Initializer exists only
\* if a commitment of exactly 32 bytes was supplied to NewInitializer.
C5_CommitmentSupplied == CommitmentLen(inst.commitment) = 32

\* the latest call event is the return of o, and no call has acquired the
\* lock or been refused since: the state "immediately after" that return
Returned(o) == last.op = o /\ last.ret.code # "pending" /\ ~mtx

\* C6: right after Initialize returned success, every one of the NumFiles
\* label files holds exactly fileNumLabels labels, and Status classifies the
\* directory as Completed.
C6_SuccessMeansComplete ==
    (Returned("Initialize") /\ last.ret = RetOk)
    => /\ \A idx \in FileIdx :
            idx < inst.NumFiles =>
              WriterNumLabelsWritten(files, idx, inst.BitsPerLabel) = FileNumLabels(inst)
       /\ StatusOf(DiskNumLabelsWritten(files, inst), TargetNumLabels(inst))
            = StatusCompleted

\* C6 witness: Initialize returned success for two files after a restart
\* under another configuration.
C6_Witness ==
    /\ Returned("Initialize") /\ last.ret = RetOk
    /\ inst.NumFiles = 2 /\ restarts = 1 /\ ~clean
    /\ \A idx \in FileIdx : files[idx].data # <<>>

\* what Status returned, when it read the disk state
StatusAnswered ==
    /\ Returned("Status")
    /\ last.ret.code \in {StatusCompleted, StatusStarted, StatusNotStarted}

\* C7 (the claim as stated; the code violates it): Status, when it can read
\* the disk state, reports Completed exactly when L = N, Started exactly when
\* 0 < L < N, NotStarted exactly when L = 0.
C7_AsStated ==
    StatusAnswered =>
      LET L == DiskNumLabelsWritten(files, inst)
          N == TargetNumLabels(inst)
      IN /\ (last.ret.code = StatusCompleted) <=> (L = N)
         /\ (last.ret.code = StatusStarted) <=> (L > 0 /\ L < N)
         /\ (last.ret.code = StatusNotStarted) <=> (L = 0)

\* C7 (amended): Status, when it can read the disk state, reports Completed
\* exactly when L = N, Started exactly when L is nonzero and differs from N
\* (short of it or beyond it), NotStarted exactly when L = 0.
C7_StatusClasses ==
    StatusAnswered =>
      LET L == DiskNumLabelsWritten(files, inst)
          N == TargetNumLabels(inst)
      IN /\ (last.ret.code = StatusCompleted) <=> (L = N)
         /\ (last.ret.code = StatusStarted) <=> (L > 0 /\ L # N)
         /\ (last.ret.code = StatusNotStarted) <=> (L = 0)

\* C7 witness: Status reported Started for a directory that holds more labels
\* than the target.
C7_Witness ==
    /\ StatusAnswered
    /\ last.ret.code = StatusStarted
    /\ DiskNumLabelsWritten(files, inst) > TargetNumLabels(inst)

\* C8 (the claim as stated; the code violates it): right after Reset returned
\* success the directory holds no label file and no metadata file, the
\* unrelated file is still there, and Status classifies it as NotStarted.
C8_ResetWipes ==
    (Returned("Reset") /\ last.ret = RetOk)
    => /\ \A idx \in FileIdx : ~files[idx].present
       /\ meta = <<>>
       /\ other
       /\ StatusOf(DiskNumLabelsWritten(files, inst), TargetNumLabels(inst))
            = StatusNotStarted

\* C9 (the claim as stated; the code violates it): over the lifetime of one
\* Initializer, no step lowers the session counter.
C9_Monotonic == [][inst' = inst /\ restarts' = restarts
                   => numLabelsWritten' >= numLabelsWritten]_vars

\* C10 (the claim as stated; the code violates it): every return of
\* Initialize taken because the loop observed cancellation was preceded by
\* the oracle stop and then the Flush of the current file.
C10_FlushOnCancel ==
    (last.op = "Initialize" /\ last.exit.cause = "cancel")
    => last.exit.events = <<"stop", "flush">>

\* floor(2^(8*len) / n) as len big-endian bytes
Threshold(n, len) == [k \in 1..len |-> ((256^len \div n) \div 256^(len - k)) % 256]

\* C11 (the claim as stated; the code violates it): no Initialize ends in a
\* panic of getDifficulty, and every range dispatched to the oracle carries
\* the threshold floor(2^256 / N) of the run's target label count N as a
\* fixed-width big-endian value.
C11_Difficulty ==
    /\ last.ret # Panic
    /\ \A k \in 1..Len(oracleLog) :
         oracleLog[k][3] = Threshold(TargetNumLabels(inst), DifficultyLen)

\* C12 (the claim as stated; the code violates it): every exit of the
\* per-file loop taken after at least one batch was appended to the writer
\* (in particular the exit on an oracle or Write error) performed a Flush
\* before Initialize returned.
C12_FlushOnError ==
    (last.op = "Initialize" /\ last.exit.cause # "none" /\ last.exit.appended)
    => \E k \in 1..Len(last.exit.events) : last.exit.events[k] = "flush"

InReset == \E p \in Procs : pc[p] \in ResetPcs
\* Initialize is past its saveMetadata
PastSave == \E p \in Procs : pc[p] \in {"init_file", "init_loop"}

\* C13 (the claim as stated; the code violates it): in every state outside an
\* in-flight Reset, every point inside an Initialize included, if some label
\* file holds a label then the metadata file exists, and once the running
\* Initialize has passed the consistency check and saved, it records that
\* Initializer's commitment, bitsPerLabel, labelsPerUnit, numUnits, numFiles.
C13_MetadataFirst ==
    (~InReset /\ ~NoBytes(files))
    => /\ meta # <<>>
       /\ PastSave => meta[1] = MetadataOf(inst)

\* the ranges the running Initialize dispatched for file idx, in order
RangesOf(idx) ==
    SelectSeq(oracleLog, LAMBDA r : r[1] \div FileNumLabels(inst) = idx)
\* the labels file idx held when the running Initialize began
ResumePoint(idx) == WriterNumLabelsWritten(snap, idx, inst.BitsPerLabel)
\* the running Initialize has left the loop of file idx
PassDone(idx) ==
    \E p \in Procs :
      \/ pc[p] \in {"init_file", "init_loop"} /\ idx < fileIndex
      \/ pc[p] = "init_loop" /\ idx = fileIndex
           /\ currentPosition >= FileNumLabels(inst)

\* C14: in one pass of the per-file loop for file i that starts with w <
\* fileNumLabels labels on disk, the ranges dispatched to the oracle are in
\* order and contiguous, the first starts at i*fileNumLabels + w, each holds
\* between one and batch-size positions, none reaches past
\* (i+1)*fileNumLabels - 1, and when the pass is done the last one ends
\* exactly there; a file that starts complete or over-long dispatches nothing.
C14_Ranges ==
    (\E p \in Procs : pc[p] \in {"init_file", "init_loop"}) =>
    \A idx \in FileIdx :
      idx < inst.NumFiles =>
        LET rs == RangesOf(idx)
            fnl == FileNumLabels(inst)
            w == ResumePoint(idx)
        IN /\ \A k \in 1..Len(oracleLog) : oracleLog[k][1] \div fnl < inst.NumFiles
           /\ w >= fnl => rs = <<>>
           /\ \A k \in 1..Len(rs) :
                /\ rs[k][1] = IF k = 1 THEN idx * fnl + w ELSE rs[k - 1][2] + 1
                /\ rs[k][2] - rs[k][1] + 1 \in 1..DefaultComputeBatchSize
                /\ rs[k][2] <= (idx + 1) * fnl - 1
           /\ (PassDone(idx) /\ w < fnl) =>
                (rs # <<>> /\ rs[Len(rs)][2] = (idx + 1) * fnl - 1)

\* C14 witness: a pass that resumed at an odd position has finished with two
\* ranges, the last one clipped below the batch size.
C14_Witness ==
    \E idx \in FileIdx :
      /\ idx < inst.NumFiles /\ PassDone(idx)
      /\ ResumePoint(idx) = 1
      /\ Len(RangesOf(idx)) = 2
      /\ RangesOf(idx)[2][2] - RangesOf(idx)[2][1] + 1 < DefaultComputeBatchSize

\* C15: a step taken while an Initialize is at its consistency step, the
\* step that enters it and the step that returns its error included, leaves
\* the metadata, every label file and the session counter as they were; when
\* the call returns from that step the label files are those of its entry
\* and no range was dispatched to the oracle.
C15_Step ==
    \A p \in Procs :
      /\ (pc[p] = "init_check" \/ pc'[p] = "init_check")
         => UNCHANGED <<files, meta, other, numLabelsWritten>>
      /\ (pc[p] = "init_check" /\ pc'[p] = "idle")
         => (files' = snap /\ oracleLog = <<>>)
C15_CheckFailureFrame == [][C15_Step]_vars

\* C15 witness: an Initialize has returned ConfigMismatch over a directory
\* that holds labels and the metadata of another configuration.
C15_Witness ==
    /\ Returned("Initialize") /\ last.ret.code = "ConfigMismatch"
    /\ ~NoBytes(files)
    /\ meta # <<>> /\ meta[1] # MetadataOf(inst)

\* no range is dispatched in this step
NoDispatch == Len(oracleLog') <= Len(oracleLog)
\* no label file gains labels in this step other than labels already handed
\* to the writer (a Flush), and none is otherwise rewritten
NoNewLabels ==
    \A idx \in FileIdx :
      \/ IsPrefix(files'[idx].data, files[idx].data)
      \/ \E k \in 0..Len(wbuf) : files'[idx].data = files[idx].data \o SubSeq(wbuf, 1, k)
\* this step opens a label file after the first one
OpensLaterFile ==
    \E p \in Procs :
      /\ pc[p] = "init_file" /\ fileIndex >= 1 /\ fileIndex < inst.NumFiles
      /\ (pc'[p] = "init_loop" \/ fileIndex' = fileIndex + 1)

\* C16 (the claim as stated; the code violates it): once the context is
\* cancelled, Initialize dispatches no range, appends nothing but what the
\* writer already holds, and opens no later file.
C16_AsStated == [][ctx => (NoDispatch /\ NoNewLabels /\ ~OpensLaterFile)]_vars

\* C16 (amended): once the context is cancelled, Initialize dispatches no
\* range and appends nothing but what the writer already holds (so a call
\* cancelled at entry appends nothing); it may still open a later file.
C16_NoNewBatch == [][ctx => (NoDispatch /\ NoNewLabels)]_vars

\* C16 witness: a call that dispatched a batch and was then cancelled has
\* gone on to the second file and stands at its first batch boundary.
C16_Witness ==
    /\ ctx /\ fileIndex = 1 /\ oracleLog # <<>> /\ wbuf = <<>>
    /\ \E p \in Procs : pc[p] = "init_loop"
    /\ currentPosition < FileNumLabels(inst)

\* the latest call event is a refusal: the call found the lock held
RefusedInitOrReset ==
    last.ret \in {ErrAlreadyInitializing, ErrCannotResetWhileInitializing}
RefusedStatus == last = Event("Status", StatusRet(StatusInitializing))
AllIdle == \A p \in Procs : pc[p] = "idle"

\* C17: whenever no call is in flight the lock is free, whatever the return
\* path of the calls that ran (success, cancellation, consistency error,
\* oracle, writer or I/O error, panic); so no call is refused (Initialize
\* with AlreadyInitializing, Reset with CannotResetWhileInitializing, Status
\* with Initializing) unless a call is in flight.
C17_Released ==
    /\ AllIdle => ~mtx
    /\ (RefusedInitOrReset \/ RefusedStatus) => ~AllIdle

\* C17 witness: a cancelled Initialize has returned, nothing is in flight and
\* the lock is free.
C17_Witness ==
    /\ AllIdle /\ ~mtx
    /\ Returned("Initialize") /\ last.ret = ErrCancelled /\ last.exit.appended

\* C18 (the claim as stated; the code violates it): an Initialize is refused
\* with AlreadyInitializing, or a Reset with CannotResetWhileInitializing,
\* only while another Initialize or Reset is in flight.
C18_QueriesHarmless ==
    RefusedInitOrReset => Holders(InitPcs \cup ResetPcs) # {}

\* C19 (the claim as stated; the code violates it): Status reports
\* Initializing only while an Initialize is in flight.
C19_AsStated == RefusedStatus => Holders(InitPcs) # {}

\* C19 (amended): Status reports Initializing only while some call holds
\* the lock: an Initialize, a Reset or another Status.
C19_InitializingMeansHeld ==
    RefusedStatus => (mtx /\ Holders(InitPcs \cup ResetPcs \cup StatusPcs) # {})

\* C19 witness: Status reported Initializing while a Reset is deleting.
C19_Witness ==
    /\ RefusedStatus
    /\ \E p \in Procs : pc[p] = "reset_loop" /\ todo # {}

\* the returns of Initialize that a refusal, a failed consistency check, a
\* cancellation or an error of the oracle, the writer or the disk accounts for
ExcusedReturns ==
    {"ErrAlreadyInitializing", "ErrStateMetadataFileMissing", "ConfigMismatch",
     "ContextCanceled", "GpuStopError", "OracleError", "IoError"}

\* C20 (the claim as stated; the code violates it): an Initialize that
\* acquired the lock, passed the consistency check, was not cancelled and met
\* no error of the oracle, the writer or the disk ends by returning success.
C20_EndsInSuccess ==
    (last.op = "Initialize" /\ last.ret.code # "pending")
    => (last.ret = RetOk \/ last.ret.code \in ExcusedReturns)

====
